---- MODULE Spec2Model ----
(***************************************************************************)
(* Model of src/src/session_manager.py (SessionManager, UserSession,       *)
(* ThreadSafeContextManager) and of the query processor that               *)
(* src/src/main.py passes to process_user_request.                         *)
(*                                                                         *)
(* Scheduling: the program runs its coroutines on one asyncio event loop.  *)
(* A coroutine runs without interruption until it suspends: on an          *)
(* asyncio.Lock that is held, or on an await of an external collaborator.  *)
(* Every action below is one such run.  The registry methods are           *)
(* synchronous and are single steps.  Time is a discrete clock `now`;      *)
(* datetime.now() reads it.  uuid4() is a fresh id taken from a counter.   *)
(***************************************************************************)
EXTENDS Integers, Sequences, FiniteSets

\* ------------------------------------------------------------------ bounds
NTasks == 2
MaxSessions == 2
MaxTime == 2
MaxTurns == 1
MaxLocks == 2
MaxStarts == 2
\* session_timeout_minutes, scaled to the model's clock
TTL == 1

Users == {"u1", "u2"}
Tasks == 1..NTasks
SessionIds == 1..MaxSessions
\* None: the absent session id / lock / task
None == 0
\* user_context = None, which create_session stores as {}
EmptyCtx == [k \in {} |-> 1]
\* the message of a turn appended outside a request task
ExtMsg == 0

VARIABLES
    sessions,         \* SessionManager.sessions: session_id -> UserSession
    user_to_session,  \* SessionManager.user_to_session: user_id -> session_id
    next_sid,         \* the next fresh uuid
    now,              \* the clock
    user_locks,       \* ThreadSafeContextManager._user_locks: user_id -> lock
    locks,            \* the asyncio.Lock objects created so far
    locks_lock,       \* holder of ThreadSafeContextManager._locks_lock (no await
                      \* lies inside its critical sections, so it is free
                      \* between steps)
    pc,               \* where each request task is
    t_user,           \* user_id argument of each request task
    t_lock,           \* user_lock local of each request task
    t_session,        \* session local of each request task
    acq_order,        \* history: tasks in the order they acquired a gate
    reg_lock,         \* SessionManager._lock, an RLock: its owner and depth
    is_running,       \* SessionManager._is_running
    ctasks,           \* the tasks made by start(), in order: where each is,
                      \* whether a cancellation is waiting for it, whether it
                      \* has logged an error, and how its last pass ended
    cleanup_task,     \* SessionManager._cleanup_task: an index of ctasks
    stop_pc           \* where the caller of stop() is

regVars == <<sessions, user_to_session, next_sid, now>>
gateVars == <<user_locks, locks, locks_lock>>
taskVars == <<pc, t_user, t_lock, t_session, acq_order>>
lifeVars == <<is_running, ctasks, cleanup_task, stop_pc>>
mgrVars == <<reg_lock, is_running, ctasks, cleanup_task, stop_pc>>
vars == <<sessions, user_to_session, next_sid, now,
          user_locks, locks, locks_lock, pc, t_user, t_lock, t_session, acq_order,
          reg_lock, is_running, ctasks, cleanup_task, stop_pc>>

\* ------------------------------------------------------- UserSession

\* (changed: last_activity is not given and stays at the epoch)
NewSession_activity_unset(u, ctx, t) ==
    [user_id |-> u, created_at |-> t, last_activity |-> 0,
     conversation_history |-> <<>>, user_context |-> ctx, is_active |-> TRUE]

\* UserSession(...) as built by create_session
NewSession(u, ctx, t) ==
    [user_id |-> u, created_at |-> t, last_activity |-> t,
     conversation_history |-> <<>>, user_context |-> ctx, is_active |-> TRUE]

\* (changed: expired already at the timeout, not after it)
is_expired_at_timeout(s, t) == t - s.last_activity >= TTL

\* UserSession.is_expired
is_expired(s, t) == t - s.last_activity > TTL

\* (changed: the turn is put at the front)
add_turn_front(s, msg, t) ==
    [s EXCEPT !.conversation_history = <<msg>> \o @, !.last_activity = t]

\* (changed: the turn takes the place of the last one)
add_turn_over_last(s, msg, t) ==
    [s EXCEPT !.conversation_history =
                  IF @ = <<>> THEN <<msg>> ELSE [@ EXCEPT ![Len(@)] = msg],
              !.last_activity = t]

\* UserSession.add_turn
add_turn(s, msg, t) ==
    [s EXCEPT !.conversation_history = Append(@, msg), !.last_activity = t]

\* (changed: a key that is already there keeps its value)
DictUpdate_existing_kept(d, upd) ==
    [k \in DOMAIN d \cup DOMAIN upd |-> IF k \in DOMAIN d THEN d[k] ELSE upd[k]]

\* dict.update
DictUpdate(d, upd) ==
    [k \in DOMAIN d \cup DOMAIN upd |-> IF k \in DOMAIN upd THEN upd[k] ELSE d[k]]

\* d[k] = v on a dict
DictSet(d, k, v) == [x \in DOMAIN d \cup {k} |-> IF x = k THEN v ELSE d[x]]

\* del d[k] / d.pop(k)
DictDel(d, k) == [x \in DOMAIN d \ {k} |-> d[x]]

\* ------------------------------------------- SessionManager, as functions
\* Each takes the two mappings (S, I) and gives the mappings after the call
\* and the value returned.

\* (changed: the prior session is left active)
create_session_prior_kept(S, I, sid, u, ctx, t) ==
    [S |-> DictSet(S, sid, NewSession(u, ctx, t)),
     I |-> DictSet(I, u, sid),
     val |-> sid]

\* (changed: an index entry that exists is not overwritten)
create_session_index_kept(S, I, sid, u, ctx, t) ==
    LET S1 == IF u \in DOMAIN I /\ I[u] \in DOMAIN S
              THEN [S EXCEPT ![I[u]].is_active = FALSE]
              ELSE S
    IN  [S |-> DictSet(S1, sid, NewSession(u, ctx, t)),
         I |-> IF u \in DOMAIN I THEN I ELSE DictSet(I, u, sid),
         val |-> sid]

\* (changed: the earlier writer wins; a later session is stored inactive)
create_session_first_wins(S, I, sid, u, ctx, t) ==
    IF u \in DOMAIN I /\ I[u] \in DOMAIN S
    THEN [S |-> DictSet(S, sid, [NewSession(u, ctx, t) EXCEPT !.is_active = FALSE]),
          I |-> I,
          val |-> sid]
    ELSE [S |-> DictSet(S, sid, NewSession(u, ctx, t)),
          I |-> DictSet(I, u, sid),
          val |-> sid]

\* (changed: every stored session, of any user, is made inactive)
create_session_all_closed(S, I, sid, u, ctx, t) ==
    [S |-> DictSet([x \in DOMAIN S |-> [S[x] EXCEPT !.is_active = FALSE]],
                   sid, NewSession(u, ctx, t)),
     I |-> DictSet(I, u, sid),
     val |-> sid]

\* (changed: the new session is indexed and not put into the store)
create_session_not_stored(S, I, sid, u, ctx, t) ==
    LET S1 == IF u \in DOMAIN I /\ I[u] \in DOMAIN S
              THEN [S EXCEPT ![I[u]].is_active = FALSE]
              ELSE S
    IN  [S |-> S1,
         I |-> DictSet(I, u, sid),
         val |-> sid]

\* SessionManager.create_session
create_session(S, I, sid, u, ctx, t) ==
    LET S1 == IF u \in DOMAIN I /\ I[u] \in DOMAIN S
              THEN [S EXCEPT ![I[u]].is_active = FALSE]
              ELSE S
    IN  [S |-> DictSet(S1, sid, NewSession(u, ctx, t)),
         I |-> DictSet(I, u, sid),
         val |-> sid]

\* (changed: a hit makes the session active again)
get_session_reactivating(S, I, sid, t) ==
    IF sid \in DOMAIN S /\ ~is_expired(S[sid], t)
    THEN [S |-> [S EXCEPT ![sid].last_activity = t, ![sid].is_active = TRUE],
          I |-> I, val |-> sid]
    ELSE [S |-> S, I |-> I, val |-> None]

\* SessionManager.get_session
get_session(S, I, sid, t) ==
    IF sid \in DOMAIN S /\ ~is_expired(S[sid], t)
    THEN [S |-> [S EXCEPT ![sid].last_activity = t], I |-> I, val |-> sid]
    ELSE [S |-> S, I |-> I, val |-> None]

\* (changed: the indexed session is returned without the expiry test)
get_user_session_expiry_unchecked(S, I, u, t) ==
    IF u \in DOMAIN I /\ I[u] \in DOMAIN S
    THEN [S |-> [S EXCEPT ![I[u]].last_activity = t], I |-> I, val |-> I[u]]
    ELSE [S |-> S, I |-> I, val |-> None]

\* (changed: a miss on an indexed session deletes the index entry)
get_user_session_stale_dropped(S, I, u, t) ==
    IF u \in DOMAIN I
    THEN LET g == get_session(S, I, I[u], t)
         IN  IF g.val = None
             THEN [S |-> S, I |-> DictDel(I, u), val |-> None]
             ELSE g
    ELSE [S |-> S, I |-> I, val |-> None]

\* SessionManager.get_user_session
get_user_session(S, I, u, t) ==
    IF u \in DOMAIN I
    THEN get_session(S, I, I[u], t)
    ELSE [S |-> S, I |-> I, val |-> None]

\* SessionManager.add_conversation_turn
add_conversation_turn(S, I, sid, msg, t) ==
    LET g == get_session(S, I, sid, t)
    IN  IF g.val # None
        THEN [S |-> [g.S EXCEPT ![sid] = add_turn(@, msg, t)], I |-> I, val |-> TRUE]
        ELSE [S |-> g.S, I |-> I, val |-> FALSE]

\* SessionManager.update_user_context
update_user_context(S, I, sid, upd, t) ==
    LET g == get_session(S, I, sid, t)
    IN  IF g.val # None
        THEN [S |-> [g.S EXCEPT ![sid].user_context = DictUpdate(@, upd),
                                ![sid].last_activity = t],
              I |-> I, val |-> TRUE]
        ELSE [S |-> g.S, I |-> I, val |-> FALSE]

\* (changed: the index entry is left in place)
close_session_index_kept(S, I, sid) ==
    IF sid \in DOMAIN S
    THEN [S |-> [S EXCEPT ![sid].is_active = FALSE], I |-> I, val |-> TRUE]
    ELSE [S |-> S, I |-> I, val |-> FALSE]

\* (changed: the user's index entry is deleted whatever it points at)
close_session_index_dropped(S, I, sid) ==
    IF sid \in DOMAIN S
    THEN [S |-> [S EXCEPT ![sid].is_active = FALSE],
          I |-> IF S[sid].user_id \in DOMAIN I
                THEN DictDel(I, S[sid].user_id)
                ELSE I,
          val |-> TRUE]
    ELSE [S |-> S, I |-> I, val |-> FALSE]

\* (changed: the index entry is deleted and the session is left active)
close_session_flag_kept(S, I, sid) ==
    IF sid \in DOMAIN S
    THEN [S |-> S,
          I |-> IF S[sid].user_id \in DOMAIN I /\ I[S[sid].user_id] = sid
                THEN DictDel(I, S[sid].user_id)
                ELSE I,
          val |-> TRUE]
    ELSE [S |-> S, I |-> I, val |-> FALSE]

\* SessionManager.close_session
close_session(S, I, sid) ==
    IF sid \in DOMAIN S
    THEN [S |-> [S EXCEPT ![sid].is_active = FALSE],
          I |-> IF S[sid].user_id \in DOMAIN I /\ I[S[sid].user_id] = sid
                THEN DictDel(I, S[sid].user_id)
                ELSE I,
          val |-> TRUE]
    ELSE [S |-> S, I |-> I, val |-> FALSE]

\* (changed: the index is left as it is)
cleanup_expired_sessions_index_kept(S, I, t) ==
    LET expired_sessions == {sid \in DOMAIN S : is_expired(S[sid], t) \/ ~S[sid].is_active}
    IN  [S |-> [sid \in DOMAIN S \ expired_sessions |-> S[sid]],
         I |-> I,
         val |-> None]

\* (changed: only expired sessions are removed)
cleanup_expired_sessions_only_expired(S, I, t) ==
    LET expired_sessions == {sid \in DOMAIN S : is_expired(S[sid], t)}
    IN  [S |-> [sid \in DOMAIN S \ expired_sessions |-> S[sid]],
         I |-> [u \in {x \in DOMAIN I : ~(\E sid \in expired_sessions :
                                            S[sid].user_id = x /\ I[x] = sid)} |-> I[u]],
         val |-> None]

\* SessionManager._cleanup_expired_sessions
cleanup_expired_sessions(S, I, t) ==
    LET expired_sessions == {sid \in DOMAIN S : is_expired(S[sid], t) \/ ~S[sid].is_active}
    IN  [S |-> [sid \in DOMAIN S \ expired_sessions |-> S[sid]],
         I |-> [u \in {x \in DOMAIN I : ~(\E sid \in expired_sessions :
                                            S[sid].user_id = x /\ I[x] = sid)} |-> I[u]],
         val |-> None]

\* sum(len(s.conversation_history) for s in ...) over the sessions ids of S
RECURSIVE total_conversations(_, _)
total_conversations(S, ids) ==
    IF ids = {}
    THEN 0
    ELSE LET sid == CHOOSE x \in ids : TRUE
         IN  Len(S[sid].conversation_history) + total_conversations(S, ids \ {sid})

\* (changed: every stored session counts as active)
get_session_stats_all_active(S) ==
    [active_sessions |-> Cardinality(DOMAIN S),
     total_sessions |-> Cardinality(DOMAIN S),
     total_conversation_turns |-> total_conversations(S, DOMAIN S),
     unique_users |-> Cardinality({S[sid].user_id : sid \in DOMAIN S})]

\* (changed: only the turns of active sessions are counted)
get_session_stats_active_turns(S) ==
    [active_sessions |-> Cardinality({sid \in DOMAIN S : S[sid].is_active}),
     total_sessions |-> Cardinality(DOMAIN S),
     total_conversation_turns |->
        total_conversations(S, {sid \in DOMAIN S : S[sid].is_active}),
     unique_users |-> Cardinality({S[sid].user_id : sid \in DOMAIN S})]

\* SessionManager.get_session_stats: the dict returned
get_session_stats(S) ==
    [active_sessions |-> Cardinality({sid \in DOMAIN S : S[sid].is_active}),
     total_sessions |-> Cardinality(DOMAIN S),
     total_conversation_turns |-> total_conversations(S, DOMAIN S),
     unique_users |-> Cardinality({S[sid].user_id : sid \in DOMAIN S})]

\* the list slice s[-n:]: a start index below zero counts from the end and
\* is clipped at the front, and -0 is 0, the front
SliceFromMinus(s, n) ==
    LET start == IF -n < 0
                 THEN (IF Len(s) - n < 0 THEN 0 ELSE Len(s) - n)
                 ELSE (IF -n > Len(s) THEN Len(s) ELSE -n)
    IN  SubSeq(s, start + 1, Len(s))

\* UserSession.get_recent_context: two entries for each of the recent turns
\* (a turn of the model is its message, which stands for the user's message
\* and the bot's response)
get_recent_context(s, max_turns) ==
    LET recent_turns == IF s.conversation_history # <<>>
                        THEN SliceFromMinus(s.conversation_history, max_turns)
                        ELSE <<>>
    IN  [i \in 1..(2 * Len(recent_turns)) |->
            IF i % 2 = 1
            THEN [role |-> "user", content |-> recent_turns[(i + 1) \div 2]]
            ELSE [role |-> "assistant", content |-> recent_turns[i \div 2]]]

\* SessionManager.get_conversation_history
get_conversation_history(S, I, sid, max_turns, t) ==
    LET g == get_session(S, I, sid, t)
    IN  IF g.val # None
        THEN [S |-> g.S, I |-> I,
              val |-> IF g.S[sid].conversation_history # <<>>
                      THEN SliceFromMinus(g.S[sid].conversation_history, max_turns)
                      ELSE <<>>]
        ELSE [S |-> g.S, I |-> I, val |-> <<>>]

\* ------------------------------------------------------------------ Init
Init ==
    /\ sessions = [sid \in {} |-> NewSession("u1", EmptyCtx, 0)]
    /\ user_to_session = [u \in {} |-> None]
    /\ next_sid = 1
    /\ now = 0
    /\ user_locks = [u \in {} |-> None]
    /\ locks = [l \in {} |-> [locked |-> FALSE, waiters |-> <<>>]]
    /\ locks_lock = None
    /\ pc = [t \in Tasks |-> "idle"]
    /\ t_user = [t \in Tasks |-> "u1"]
    /\ t_lock = [t \in Tasks |-> None]
    /\ t_session = [t \in Tasks |-> None]
    /\ acq_order = <<>>
    /\ reg_lock = [owner |-> None, count |-> 0]
    /\ is_running = FALSE
    /\ ctasks = <<>>
    /\ cleanup_task = None
    /\ stop_pc = [st |-> "idle", task |-> None]

\* ------------------------------------------- registry calls by any caller
Apply(r) ==
    /\ sessions' = r.S
    /\ user_to_session' = r.I

CreateSession(u, ctx) ==
    /\ next_sid <= MaxSessions
    /\ Apply(create_session(sessions, user_to_session, next_sid, u, ctx, now))
    /\ next_sid' = next_sid + 1
    /\ UNCHANGED <<now, gateVars, mgrVars, taskVars>>

GetSession(sid) ==
    /\ Apply(get_session(sessions, user_to_session, sid, now))
    /\ UNCHANGED <<next_sid, now, gateVars, mgrVars, taskVars>>

GetUserSession(u) ==
    /\ Apply(get_user_session(sessions, user_to_session, u, now))
    /\ UNCHANGED <<next_sid, now, gateVars, mgrVars, taskVars>>

AddConversationTurn(sid) ==
    /\ sid \in DOMAIN sessions => Len(sessions[sid].conversation_history) < MaxTurns
    /\ Apply(add_conversation_turn(sessions, user_to_session, sid, ExtMsg, now))
    /\ UNCHANGED <<next_sid, now, gateVars, mgrVars, taskVars>>

UpdateUserContext(sid, upd) ==
    /\ Apply(update_user_context(sessions, user_to_session, sid, upd, now))
    /\ UNCHANGED <<next_sid, now, gateVars, mgrVars, taskVars>>

CloseSession(sid) ==
    /\ Apply(close_session(sessions, user_to_session, sid))
    /\ UNCHANGED <<next_sid, now, gateVars, mgrVars, taskVars>>

\* get_session_stats is called: it reads the store and assigns nothing
GetSessionStats ==
    /\ UNCHANGED <<regVars, gateVars, mgrVars, taskVars>>

\* one pass of the periodic task: _cleanup_expired_sessions
Sweep ==
    /\ Apply(cleanup_expired_sessions(sessions, user_to_session, now))
    /\ UNCHANGED <<next_sid, now, gateVars, mgrVars, taskVars>>

\* the clock advances
Tick ==
    /\ now < MaxTime
    /\ now' = now + 1
    /\ UNCHANGED <<sessions, user_to_session, next_sid, gateVars, mgrVars, taskVars>>

\* ------------------------------------------------------- asyncio.Lock
\* asyncio.Lock(): a new, unlocked lock with no waiters
NewLock == [locked |-> FALSE, waiters |-> <<>>]

\* (changed: acquire does not look at the lock)
LockFreeAlways(l) == TRUE

\* (changed: acquire does not look at the queue of waiters)
LockFree_waiters_ignored(l) == ~l.locked

\* the test of Lock.acquire for taking the lock without suspending
\* (a cancelled waiter is removed in the step that cancels it, so the
\* waiters left in the queue are the ones not cancelled)
LockFree(l) == ~l.locked /\ l.waiters = <<>>

\* the queue without task t
Without(q, t) == SelectSeq(q, LAMBDA x : x # t)

\* Lock._wake_up_first on lock object l: the first waiter's future gets its
\* result, if it has none yet.  Gives the tasks' positions afterwards.
wake_up_first(l, P) ==
    IF l.waiters # <<>> /\ P[Head(l.waiters)] = "waiting"
    THEN [P EXCEPT ![Head(l.waiters)] = "woken"]
    ELSE P

\* (changed: the lock stays set and nobody is woken)
release_skipped(L, P, k) == [L |-> L, P |-> P]

\* Lock.release on lock id k of lock table L: gives the locks and the tasks'
\* positions afterwards
release(L, P, k) ==
    [L |-> [L EXCEPT ![k].locked = FALSE], P |-> wake_up_first(L[k], P)]

\* ------------------------------------------ ThreadSafeContextManager
\* (changed: no test for an existing gate, every call makes a lock)
get_user_lock_fresh(UL, L, u) ==
    LET k == Cardinality(DOMAIN L) + 1
    IN  [UL |-> DictSet(UL, u, k), L |-> DictSet(L, k, NewLock), val |-> k]

\* (changed: one gate for all users)
get_user_lock_global(UL, L, u) ==
    IF DOMAIN UL = {}
    THEN [UL |-> DictSet(UL, u, 1), L |-> DictSet(L, 1, NewLock), val |-> 1]
    ELSE [UL |-> DictSet(UL, u, 1), L |-> L, val |-> 1]

\* get_user_lock: the body under _locks_lock.  Gives the gate table, the
\* lock objects and the lock returned.
get_user_lock(UL, L, u) ==
    IF u \notin DOMAIN UL
    THEN LET k == Cardinality(DOMAIN L) + 1
         IN  [UL |-> DictSet(UL, u, k), L |-> DictSet(L, k, NewLock), val |-> k]
    ELSE [UL |-> UL, L |-> L, val |-> UL[u]]

\* cleanup_user_locks: the body under _locks_lock
cleanup_user_locks(UL, S) ==
    LET active_users == {S[sid].user_id : sid \in {x \in DOMAIN S : S[x].is_active}}
    IN  [u \in DOMAIN UL \cap active_users |-> UL[u]]

\* (changed: a session is created whether or not the lookup finds one)
resolve_session_always_creates(S, I, sid, u, t) ==
    LET g == get_user_session(S, I, u, t)
        c == create_session(g.S, g.I, sid, u, EmptyCtx, t)
        h == get_session(c.S, c.I, c.val, t)
    IN  [S |-> h.S, I |-> h.I, val |-> h.val, created |-> TRUE]

\* process_user_request, "Get or create session": get_user_session, and on a
\* miss create_session then get_session.  val is the session found (None for
\* none), created tells whether create_session was called.
resolve_session(S, I, sid, u, t) ==
    LET g == get_user_session(S, I, u, t)
    IN  IF g.val # None
        THEN [S |-> g.S, I |-> g.I, val |-> g.val, created |-> FALSE]
        ELSE LET c == create_session(g.S, g.I, sid, u, EmptyCtx, t)
                 h == get_session(c.S, c.I, c.val, t)
             IN  [S |-> h.S, I |-> h.I, val |-> h.val, created |-> TRUE]

\* task t is suspended inside processor_func, holding its gate
InProcessor(t) == pc[t] \in {"kb", "llm", "store"}

\* process_user_request from the acquisition of the gate to the first
\* suspension of processor_func (or to the RuntimeError).  L1 is the lock
\* table with the caller's gate locked.
EnterGate(t, u, k, L1) ==
    LET r == resolve_session(sessions, user_to_session, next_sid, u, now)
    IN  /\ r.created => next_sid <= MaxSessions
        /\ sessions' = r.S
        /\ user_to_session' = r.I
        /\ next_sid' = IF r.created THEN next_sid + 1 ELSE next_sid
        /\ acq_order' = Append(acq_order, t)
        /\ t_user' = [t_user EXCEPT ![t] = u]
        /\ IF r.val = None
           THEN LET x == release(L1, pc, k)
                IN  /\ locks' = x.L
                    /\ pc' = [x.P EXCEPT ![t] = "failed"]
                    /\ t_lock' = [t_lock EXCEPT ![t] = None]
                    /\ t_session' = [t_session EXCEPT ![t] = None]
           ELSE /\ locks' = L1
                /\ pc' = [pc EXCEPT ![t] = "kb"]
                /\ t_lock' = [t_lock EXCEPT ![t] = k]
                /\ t_session' = [t_session EXCEPT ![t] = r.val]

\* (changed: _locks_lock is kept while the caller waits for the gate)
Call_table_lock_kept(t, u) ==
    /\ pc[t] = "idle"
    /\ locks_lock = None
    /\ u \in DOMAIN user_locks \/ Cardinality(DOMAIN locks) < MaxLocks
    /\ LET g == get_user_lock(user_locks, locks, u)
           k == g.val
       IN  /\ user_locks' = g.UL
           /\ IF LockFree(g.L[k])
              THEN /\ EnterGate(t, u, k, [g.L EXCEPT ![k].locked = TRUE])
                   /\ UNCHANGED locks_lock
              ELSE /\ locks' = [g.L EXCEPT ![k].waiters = Append(@, t)]
                   /\ pc' = [pc EXCEPT ![t] = "waiting"]
                   /\ t_user' = [t_user EXCEPT ![t] = u]
                   /\ t_lock' = [t_lock EXCEPT ![t] = k]
                   /\ locks_lock' = t
                   /\ UNCHANGED <<sessions, user_to_session, next_sid, t_session, acq_order>>
    /\ UNCHANGED <<now, mgrVars>>

\* process_user_request is called: get_user_lock, then Lock.acquire, which
\* takes the gate (and the call goes on into the gated section) or queues
\* the caller.
Call(t, u) ==
    /\ pc[t] = "idle"
    /\ locks_lock = None
    /\ u \in DOMAIN user_locks \/ Cardinality(DOMAIN locks) < MaxLocks
    /\ LET g == get_user_lock(user_locks, locks, u)
           k == g.val
       IN  /\ user_locks' = g.UL
           /\ IF LockFree(g.L[k])
              THEN EnterGate(t, u, k, [g.L EXCEPT ![k].locked = TRUE])
              ELSE /\ locks' = [g.L EXCEPT ![k].waiters = Append(@, t)]
                   /\ pc' = [pc EXCEPT ![t] = "waiting"]
                   /\ t_user' = [t_user EXCEPT ![t] = u]
                   /\ t_lock' = [t_lock EXCEPT ![t] = k]
                   /\ UNCHANGED <<sessions, user_to_session, next_sid, t_session, acq_order>>
    /\ UNCHANGED <<now, locks_lock, mgrVars>>

\* a woken waiter runs again: Lock.acquire removes its future from the
\* queue and sets the lock, and the call goes on into the gated section
Resume(t) ==
    /\ pc[t] = "woken"
    /\ EnterGate(t, t_user[t], t_lock[t],
                 [locks EXCEPT ![t_lock[t]].waiters = Without(@, t),
                               ![t_lock[t]].locked = TRUE])
    /\ UNCHANGED <<now, user_locks, locks_lock, mgrVars>>

\* query_processor: get_contextual_information has returned; the QueryContext
\* is built and process_query awaited
KbReturn(t) ==
    /\ pc[t] = "kb"
    /\ pc' = [pc EXCEPT ![t] = "llm"]
    /\ UNCHANGED <<regVars, gateVars, mgrVars, t_user, t_lock, t_session, acq_order>>

\* the gated section is left: the gate is released and the call ends as `how`
\* (the call's locals user_lock and session end with it)
Leave(t, how) ==
    LET x == release(locks, pc, t_lock[t])
    IN  /\ locks' = x.L
        /\ pc' = [x.P EXCEPT ![t] = how]
        /\ t_lock' = [t_lock EXCEPT ![t] = None]
        /\ t_session' = [t_session EXCEPT ![t] = None]

\* query_processor: process_query has returned; the turn is added, then
\* add_conversation_context is awaited (confidence > 0.7) or the response is
\* returned
LlmReturn(t, high) ==
    /\ pc[t] = "llm"
    /\ LET r == add_conversation_turn(sessions, user_to_session, t_session[t], t, now)
       IN  /\ sessions' = r.S
           /\ user_to_session' = r.I
    /\ IF high
       THEN /\ pc' = [pc EXCEPT ![t] = "store"]
            /\ UNCHANGED <<locks, t_lock, t_session>>
       ELSE Leave(t, "done")
    /\ UNCHANGED <<next_sid, now, user_locks, locks_lock, mgrVars, t_user, acq_order>>

\* query_processor: add_conversation_context has returned; the response is
\* returned
StoreReturn(t) ==
    /\ pc[t] = "store"
    /\ Leave(t, "done")
    /\ UNCHANGED <<regVars, user_locks, locks_lock, mgrVars, t_user, acq_order>>

\* processor_func raises at one of its awaits
Raise(t) ==
    /\ InProcessor(t)
    /\ Leave(t, "failed")
    /\ UNCHANGED <<regVars, user_locks, locks_lock, mgrVars, t_user, acq_order>>

\* the calling task is cancelled: inside processor_func the CancelledError
\* leaves the gated section; in Lock.acquire the waiter leaves the queue and,
\* the lock being free, wakes the next one
Cancel(t) ==
    /\ \/ /\ InProcessor(t)
          /\ Leave(t, "cancelled")
       \/ /\ pc[t] \in {"waiting", "woken"}
          /\ LET k == t_lock[t]
                 L1 == [locks EXCEPT ![k].waiters = Without(@, t)]
             IN  /\ locks' = L1
                 /\ pc' = [(IF L1[k].locked THEN pc ELSE wake_up_first(L1[k], pc))
                             EXCEPT ![t] = "cancelled"]
                 /\ t_lock' = [t_lock EXCEPT ![t] = None]
                 /\ UNCHANGED t_session
    /\ UNCHANGED <<regVars, user_locks, locks_lock, mgrVars, t_user, acq_order>>

\* ThreadSafeContextManager.cleanup_user_locks
CleanupUserLocks ==
    /\ locks_lock = None
    /\ user_locks' = cleanup_user_locks(user_locks, sessions)
    /\ UNCHANGED <<regVars, locks, locks_lock, mgrVars, taskVars>>

TaskNext ==
    \/ \E t \in Tasks, u \in Users : Call(t, u)
    \/ \E t \in Tasks : Resume(t)
    \/ \E t \in Tasks : KbReturn(t)
    \/ \E t \in Tasks, high \in BOOLEAN : LlmReturn(t, high)
    \/ \E t \in Tasks : StoreReturn(t)
    \/ \E t \in Tasks : Raise(t)
    \/ \E t \in Tasks : Cancel(t)

\* what other callers do to the registry while requests are in flight
EnvNext ==
    \/ \E u \in Users : CreateSession(u, EmptyCtx)
    \/ \E sid \in SessionIds : CloseSession(sid)
    \/ Sweep

RegistryNext ==
    \/ \E u \in Users : CreateSession(u, EmptyCtx)
    \/ \E sid \in SessionIds : GetSession(sid)
    \/ \E u \in Users : GetUserSession(u)
    \/ \E sid \in SessionIds : AddConversationTurn(sid)
    \/ \E sid \in SessionIds : UpdateUserContext(sid, EmptyCtx)
    \/ \E sid \in SessionIds : CloseSession(sid)
    \/ GetSessionStats
    \/ Sweep
    \/ Tick

\* the registry alone, called in any order, and the clock
SpecRegistry == Init /\ [][RegistryNext]_vars

\* concurrent requests alone, and the clock
HandleNext == TaskNext \/ Tick
SpecHandle == Init /\ [][HandleNext]_vars

\* concurrent requests and registry calls by other callers; cleanup_user_locks,
\* which nothing in the repository calls, is left out
NoPruneNext == TaskNext \/ EnvNext
SpecNoPrune == Init /\ [][NoPruneNext]_vars

\* everything
Next == TaskNext \/ EnvNext \/ Tick \/ CleanupUserLocks
Spec == Init /\ [][Next]_vars

\* ------------------------------ callers that look up, then create, ungated
\* a caller calls get_user_session(u) and gets nothing
ObserveNoSession(t, u) ==
    /\ pc[t] = "idle"
    /\ LET g == get_user_session(sessions, user_to_session, u, now)
       IN  /\ g.val = None
           /\ Apply(g)
    /\ pc' = [pc EXCEPT ![t] = "missed"]
    /\ t_user' = [t_user EXCEPT ![t] = u]
    /\ UNCHANGED <<next_sid, now, gateVars, mgrVars, t_lock, t_session, acq_order>>

\* the caller that got nothing calls create_session for the user
CreateAfterMiss(t) ==
    /\ pc[t] = "missed"
    /\ next_sid <= MaxSessions
    /\ Apply(create_session(sessions, user_to_session, next_sid, t_user[t], EmptyCtx, now))
    /\ next_sid' = next_sid + 1
    /\ pc' = [pc EXCEPT ![t] = "created"]
    /\ t_session' = [t_session EXCEPT ![t] = next_sid]
    /\ UNCHANGED <<now, gateVars, mgrVars, t_user, t_lock, acq_order>>

RaceNext ==
    \/ \E t \in Tasks, u \in Users : ObserveNoSession(t, u)
    \/ \E t \in Tasks : CreateAfterMiss(t)
    \/ Tick

\* callers that race to create a user's session, and the clock
SpecRace == Init /\ [][RaceNext]_vars

\* -------------------------------------- the registry lock, callers on threads
\* (changed: acquire never waits)
rlock_can_acquire_always(l, t) == TRUE

\* RLock.acquire by thread t does not block: the lock is free or t owns it
rlock_can_acquire(l, t) == l.owner \in {None, t}

\* RLock.acquire by thread t, when it does not block
rlock_acquire(l, t) == [owner |-> t, count |-> l.count + 1]

\* RLock.release
rlock_release(l) ==
    IF l.count <= 1
    THEN [owner |-> None, count |-> 0]
    ELSE [l EXCEPT !.count = @ - 1]

\* get_user_session(u), up to the call of get_session: the lock is taken and
\* the index looked up; with no entry the call returns
GusLookup(t, u) ==
    /\ pc[t] = "idle"
    /\ rlock_can_acquire(reg_lock, t)
    /\ IF u \in DOMAIN user_to_session
       THEN /\ t_session' = [t_session EXCEPT ![t] = user_to_session[u]]
            /\ pc' = [pc EXCEPT ![t] = "gus"]
            /\ reg_lock' = rlock_acquire(reg_lock, t)
       ELSE /\ reg_lock' = rlock_release(rlock_acquire(reg_lock, t))
            /\ UNCHANGED <<t_session, pc>>
    /\ UNCHANGED <<regVars, gateVars, lifeVars, t_user, t_lock, acq_order>>

\* get_user_session, the rest: get_session(session_id) under the lock taken
\* again, the store lookup, the expiry test and the refresh, and both
\* releases
GusGetSession(t) ==
    /\ pc[t] = "gus"
    /\ rlock_can_acquire(reg_lock, t)
    /\ Apply(get_session(sessions, user_to_session, t_session[t], now))
    /\ reg_lock' = rlock_release(rlock_release(rlock_acquire(reg_lock, t)))
    /\ pc' = [pc EXCEPT ![t] = "idle"]
    /\ t_session' = [t_session EXCEPT ![t] = None]
    /\ UNCHANGED <<next_sid, now, gateVars, lifeVars, t_user, t_lock, acq_order>>

\* add_conversation_turn(sid), up to the test of what get_session returned:
\* the lock is taken, get_session does the store lookup, the expiry test and
\* the refresh; with no session the call returns False
ActCheck(t, sid) ==
    /\ pc[t] = "idle"
    /\ rlock_can_acquire(reg_lock, t)
    /\ sid \in DOMAIN sessions => Len(sessions[sid].conversation_history) < MaxTurns
    /\ LET g == get_session(sessions, user_to_session, sid, now)
       IN  /\ Apply(g)
           /\ IF g.val # None
              THEN /\ t_session' = [t_session EXCEPT ![t] = sid]
                   /\ pc' = [pc EXCEPT ![t] = "act"]
                   /\ reg_lock' = rlock_acquire(reg_lock, t)
              ELSE /\ reg_lock' = rlock_release(rlock_acquire(reg_lock, t))
                   /\ UNCHANGED <<t_session, pc>>
    /\ UNCHANGED <<next_sid, now, gateVars, lifeVars, t_user, t_lock, acq_order>>

\* add_conversation_turn, the rest: session.add_turn on the object that
\* get_session returned, and the release
ActAppend(t) ==
    /\ pc[t] = "act"
    /\ sessions' = IF t_session[t] \in DOMAIN sessions
                   THEN [sessions EXCEPT ![t_session[t]] = add_turn(@, ExtMsg, now)]
                   ELSE sessions
    /\ reg_lock' = rlock_release(reg_lock)
    /\ pc' = [pc EXCEPT ![t] = "idle"]
    /\ t_session' = [t_session EXCEPT ![t] = None]
    /\ UNCHANGED <<user_to_session, next_sid, now, gateVars, lifeVars, t_user, t_lock, acq_order>>

\* create_session, close_session and the sweep pass by thread t: the whole
\* body under the lock
ThreadCreate(t, u) ==
    /\ pc[t] = "idle"
    /\ rlock_can_acquire(reg_lock, t)
    /\ CreateSession(u, EmptyCtx)

ThreadClose(t, sid) ==
    /\ pc[t] = "idle"
    /\ rlock_can_acquire(reg_lock, t)
    /\ CloseSession(sid)

ThreadSweep(t) ==
    /\ pc[t] = "idle"
    /\ rlock_can_acquire(reg_lock, t)
    /\ Sweep

LockNext ==
    \/ \E t \in Tasks, u \in Users : GusLookup(t, u)
    \/ \E t \in Tasks : GusGetSession(t)
    \/ \E t \in Tasks, sid \in SessionIds : ActCheck(t, sid)
    \/ \E t \in Tasks : ActAppend(t)
    \/ \E t \in Tasks, u \in Users : ThreadCreate(t, u)
    \/ \E t \in Tasks, sid \in SessionIds : ThreadClose(t, sid)
    \/ \E t \in Tasks : ThreadSweep(t)

\* registry calls from several threads, statement by statement
SpecLock == Init /\ [][LockNext]_vars

\* ------------------------------------------------ sessions with a context
\* the user_context arguments given to create_session
Contexts == {EmptyCtx, [k \in {"k1"} |-> 1]}

\* the context_updates arguments given to update_user_context
ContextUpdates == {[k \in {"k1"} |-> 2], [k \in {"k2"} |-> 1]}

ContextNext ==
    \/ \E ctx \in Contexts : CreateSession("u1", ctx)
    \/ \E sid \in SessionIds, upd \in ContextUpdates : UpdateUserContext(sid, upd)
    \/ Tick

\* one user's sessions created with a context, updated and left to expire
SpecContext == Init /\ [][ContextNext]_vars

\* ------------------------------------ SessionManager.start, stop, the task
\* asyncio.create_task: a task that has not run yet
NewTask == [st |-> "new", must_cancel |-> FALSE, errors |-> FALSE, last |-> "none"]

\* the task has not finished
Alive(task) == task.st \in {"new", "sleeping"}

\* (changed: the loop ends after one pass)
AfterPass_once(running) == "done"

\* the test of `while self._is_running` after a pass: sleep again or return
AfterPass(running) == IF running THEN "sleeping" ELSE "done"

\* SessionManager.start
Start ==
    /\ Len(ctasks) < MaxStarts
    /\ is_running' = TRUE
    /\ ctasks' = Append(ctasks, NewTask)
    /\ cleanup_task' = Len(ctasks) + 1
    /\ UNCHANGED <<regVars, gateVars, taskVars, reg_lock, stop_pc>>

\* (changed: stop cancels the task and returns without awaiting it)
Stop_not_awaiting ==
    /\ stop_pc.st # "awaiting"
    /\ is_running' = FALSE
    /\ IF cleanup_task # None /\ Alive(ctasks[cleanup_task])
       THEN ctasks' = [ctasks EXCEPT ![cleanup_task].must_cancel = TRUE]
       ELSE UNCHANGED ctasks
    /\ stop_pc' = [st |-> "returned", task |-> None]
    /\ UNCHANGED <<regVars, gateVars, taskVars, reg_lock, cleanup_task>>

\* SessionManager.stop, to its await of the task: the flag is cleared and
\* the task in _cleanup_task cancelled; a task that has finished is not
\* waited for
Stop ==
    /\ stop_pc.st # "awaiting"
    /\ is_running' = FALSE
    /\ IF cleanup_task # None /\ Alive(ctasks[cleanup_task])
       THEN /\ ctasks' = [ctasks EXCEPT ![cleanup_task].must_cancel = TRUE]
            /\ stop_pc' = [st |-> "awaiting", task |-> cleanup_task]
       ELSE /\ stop_pc' = [st |-> "returned", task |-> None]
            /\ UNCHANGED ctasks
    /\ UNCHANGED <<regVars, gateVars, taskVars, reg_lock, cleanup_task>>

\* stop: the awaited task has finished (or raised CancelledError, which stop
\* swallows) and stop returns
StopReturns ==
    /\ stop_pc.st = "awaiting"
    /\ ~Alive(ctasks[stop_pc.task])
    /\ stop_pc' = [st |-> "returned", task |-> None]
    /\ UNCHANGED <<regVars, gateVars, taskVars, reg_lock, is_running, ctasks, cleanup_task>>

\* a new task runs for the first time: a cancellation that is waiting ends
\* it before _periodic_cleanup starts; otherwise the loop test, and the sleep
CleanupTaskBegins(i) ==
    /\ ctasks[i].st = "new"
    /\ ctasks' = [ctasks EXCEPT ![i].st = IF ctasks[i].must_cancel
                                           THEN "cancelled"
                                           ELSE AfterPass(is_running),
                                ![i].must_cancel = FALSE]
    /\ UNCHANGED <<regVars, gateVars, taskVars, reg_lock, is_running, cleanup_task, stop_pc>>

\* (changed: the pass does not release the registry lock, which is still held
\* when the task sleeps again)
CleanupPass_lock_kept(i) ==
    /\ ctasks[i].st = "sleeping"
    /\ ~ctasks[i].must_cancel
    /\ Apply(cleanup_expired_sessions(sessions, user_to_session, now))
    /\ ctasks' = [ctasks EXCEPT ![i].st = AfterPass(is_running), ![i].last = "swept"]
    /\ reg_lock' = [owner |-> i, count |-> 1]
    /\ UNCHANGED <<next_sid, now, gateVars, taskVars, is_running, cleanup_task, stop_pc>>

\* _periodic_cleanup: the sleep is over, _cleanup_expired_sessions runs, and
\* the loop test
CleanupPass(i) ==
    /\ ctasks[i].st = "sleeping"
    /\ ~ctasks[i].must_cancel
    /\ Apply(cleanup_expired_sessions(sessions, user_to_session, now))
    /\ ctasks' = [ctasks EXCEPT ![i].st = AfterPass(is_running), ![i].last = "swept"]
    /\ UNCHANGED <<next_sid, now, gateVars, taskVars, reg_lock, is_running, cleanup_task, stop_pc>>

\* (changed: the exception of a pass ends the task)
CleanupPassFails_ends_task(i) ==
    /\ ctasks[i].st = "sleeping"
    /\ ~ctasks[i].must_cancel
    /\ ctasks' = [ctasks EXCEPT ![i].st = "done",
                                ![i].errors = TRUE, ![i].last = "failed"]
    /\ UNCHANGED <<regVars, gateVars, taskVars, reg_lock, is_running, cleanup_task, stop_pc>>

\* _periodic_cleanup: the pass raises an Exception, which is logged, and the
\* loop test
CleanupPassFails(i) ==
    /\ ctasks[i].st = "sleeping"
    /\ ~ctasks[i].must_cancel
    /\ ctasks' = [ctasks EXCEPT ![i].st = AfterPass(is_running),
                                ![i].errors = TRUE, ![i].last = "failed"]
    /\ UNCHANGED <<regVars, gateVars, taskVars, reg_lock, is_running, cleanup_task, stop_pc>>

\* _periodic_cleanup: the CancelledError arrives at the sleep, and the break
CleanupCancelled(i) ==
    /\ ctasks[i].st = "sleeping"
    /\ ctasks[i].must_cancel
    /\ ctasks' = [ctasks EXCEPT ![i].st = "done", ![i].must_cancel = FALSE]
    /\ UNCHANGED <<regVars, gateVars, taskVars, reg_lock, is_running, cleanup_task, stop_pc>>

CleanupTaskNext ==
    \/ \E i \in DOMAIN ctasks : CleanupTaskBegins(i)
    \/ \E i \in DOMAIN ctasks : CleanupPass(i)
    \/ \E i \in DOMAIN ctasks : CleanupPassFails(i)
    \/ \E i \in DOMAIN ctasks : CleanupCancelled(i)

ManagerNext ==
    \/ Start
    \/ Stop
    \/ StopReturns
    \/ CleanupTaskNext
    \/ CreateSession("u1", EmptyCtx)
    \/ \E sid \in SessionIds : CloseSession(sid)

\* the manager started and stopped in any order, its cleanup tasks, and one
\* user's sessions created and closed
SpecManager == Init /\ [][ManagerNext]_vars

LiveNext ==
    \/ Start
    \/ Stop
    \/ StopReturns
    \/ \E i \in DOMAIN ctasks : CleanupTaskBegins(i)
    \/ \E i \in DOMAIN ctasks : CleanupPass(i)
    \/ \E i \in DOMAIN ctasks : CleanupCancelled(i)
    \/ CreateSession("u1", EmptyCtx)
    \/ \E sid \in SessionIds : CloseSession(sid)
    \/ Tick

\* the manager, its cleanup tasks, one user's sessions and the clock, with
\* the event loop running every task that is ready and the sleep of a
\* cleanup task ending: a task that can begin does begin, and a task that
\* can run a pass does run one
SpecLive ==
    /\ Init
    /\ [][LiveNext]_vars
    /\ WF_vars(\E i \in DOMAIN ctasks : CleanupTaskBegins(i))
    /\ WF_vars(\E i \in DOMAIN ctasks : CleanupPass(i))
    /\ WF_vars(\E i \in DOMAIN ctasks : CleanupCancelled(i))

\* concurrent requests, close_session by other callers and cleanup_user_locks
GateNext ==
    \/ TaskNext
    \/ \E sid \in SessionIds : CloseSession(sid)
    \/ CleanupUserLocks
SpecGate == Init /\ [][GateNext]_vars

\* the program as main.py runs it until shutdown: the manager is started,
\* its cleanup task sleeps and sweeps, one user's requests go through the
\* gate, and the clock advances
LoopNext ==
    \/ Start
    \/ \E i \in DOMAIN ctasks : CleanupTaskBegins(i)
    \/ \E i \in DOMAIN ctasks : CleanupPass(i)
    \/ \E t \in Tasks : Call(t, "u1")
    \/ \E t \in Tasks : Resume(t)
    \/ \E t \in Tasks : KbReturn(t)
    \/ \E t \in Tasks, high \in BOOLEAN : LlmReturn(t, high)
    \/ \E t \in Tasks : StoreReturn(t)
    \/ \E t \in Tasks : Raise(t)
    \/ Tick
SpecLoop == Init /\ [][LoopNext]_vars

\* ----------------------------------------------- sessions with longer logs
\* the user_message arguments given to add_conversation_turn
Messages == {1, 2}

\* add_conversation_turn is called with message msg
AddConversationTurnOf(sid, msg) ==
    /\ sid \in DOMAIN sessions => Len(sessions[sid].conversation_history) <= MaxTurns
    /\ Apply(add_conversation_turn(sessions, user_to_session, sid, msg, now))
    /\ UNCHANGED <<next_sid, now, gateVars, mgrVars, taskVars>>

LogNext ==
    \/ CreateSession("u1", EmptyCtx)
    \/ \E sid \in SessionIds : GetSession(sid)
    \/ GetUserSession("u1")
    \/ \E sid \in SessionIds, msg \in Messages : AddConversationTurnOf(sid, msg)
    \/ \E sid \in SessionIds : UpdateUserContext(sid, EmptyCtx)
    \/ \E sid \in SessionIds : CloseSession(sid)
    \/ GetSessionStats
    \/ Sweep

\* one user's sessions, their logs getting turns with different messages,
\* and every registry operation
SpecLog == Init /\ [][LogNext]_vars

\* one caller's request for either user, which may fail inside
\* processor_func, and registry calls by other callers on the sessions of
\* both users
IsolationNext ==
    \/ \E u \in Users : Call(1, u)
    \/ KbReturn(1)
    \/ LlmReturn(1, FALSE)
    \/ Raise(1)
    \/ \E u \in Users : CreateSession(u, EmptyCtx)
    \/ \E sid \in SessionIds : CloseSession(sid)
    \/ \E sid \in SessionIds : AddConversationTurn(sid)
    \/ \E sid \in SessionIds : UpdateUserContext(sid, EmptyCtx)
SpecIsolation == Init /\ [][IsolationNext]_vars

\* ------------------------------------------- callers that keep coming back
\* the caller whose request has ended makes its next one
Again(t) ==
    /\ pc[t] \in {"done", "failed"}
    /\ Len(acq_order) < NTasks
    /\ pc' = [pc EXCEPT ![t] = "idle"]
    /\ UNCHANGED <<regVars, gateVars, mgrVars, t_user, t_lock, t_session, acq_order>>

\* processor_func of task t goes on from its await, or raises there
ProcessorStep(t) ==
    \/ KbReturn(t)
    \/ \E high \in BOOLEAN : LlmReturn(t, high)
    \/ StoreReturn(t)
    \/ Raise(t)

FairNext ==
    \/ \E t \in Tasks : Call(t, "u1")
    \/ \E t \in Tasks : Resume(t)
    \/ \E t \in Tasks : ProcessorStep(t)
    \/ \E t \in Tasks : Again(t)

\* callers of one user that come back with further requests; the event loop
\* runs every woken waiter, and every processor_func execution goes on until
\* it returns or raises
SpecFair ==
    /\ Init
    /\ [][FairNext]_vars
    /\ \A t \in Tasks : WF_vars(Resume(t))
    /\ \A t \in Tasks : WF_vars(ProcessorStep(t))

\* requests of both users, close_session calls by other callers, sweep passes
\* and the clock
ResolveNext ==
    \/ \E t \in Tasks, u \in Users : Call(t, u)
    \/ \E t \in Tasks : Resume(t)
    \/ \E t \in Tasks : KbReturn(t)
    \/ \E t \in Tasks : LlmReturn(t, FALSE)
    \/ \E sid \in SessionIds : CloseSession(sid)
    \/ Sweep
    \/ Tick
SpecResolve == Init /\ [][ResolveNext]_vars

\* ------------------------------------------------------ reading the logs
\* the max_turns arguments given to get_conversation_history
TurnLimits == 0..(MaxTurns + 2)

\* get_conversation_history is called
GetConversationHistory(sid, max_turns) ==
    /\ Apply(get_conversation_history(sessions, user_to_session, sid, max_turns, now))
    /\ UNCHANGED <<next_sid, now, gateVars, mgrVars, taskVars>>

HistoryNext ==
    \/ CreateSession("u1", EmptyCtx)
    \/ \E sid \in SessionIds, msg \in Messages : AddConversationTurnOf(sid, msg)
    \/ \E sid \in SessionIds, n \in TurnLimits : GetConversationHistory(sid, n)
    \/ Sweep
    \/ Tick

\* one user's sessions, their logs written and read, the sweep and the clock
SpecHistory == Init /\ [][HistoryNext]_vars

\* ================================================================ claims

\* the tasks of user u that acquired u's gate, in acquisition order
Acquired(u) == SelectSeq(acq_order, LAMBDA t : t_user[t] = u)

\* the position of task t in acq_order (0 when it has not acquired)
AcqIndex(t) ==
    IF \E i \in 1..Len(acq_order) : acq_order[i] = t
    THEN CHOOSE i \in 1..Len(acq_order) : acq_order[i] = t
    ELSE 0

\* C1: at no instant are two executions of processor_func in flight for the
\* same user_id, whatever create_session, close_session and the sweep do in
\* between.
C1_MutualExclusion ==
    \A t1, t2 \in Tasks :
        (t1 # t2 /\ InProcessor(t1) /\ InProcessor(t2)) => t_user[t1] # t_user[t2]

\* a request is inside processor_func, its session already closed and swept,
\* while another request of the same user is queued on the gate
C1_Witness ==
    \E t1, t2 \in Tasks :
        /\ InProcessor(t1) /\ pc[t2] = "waiting"
        /\ t_user[t1] = t_user[t2]
        /\ t_session[t1] \notin DOMAIN sessions

\* C2: cleanup_user_locks never takes out of the gate table a gate that a
\* request holds or is queued on: every such request finds its gate in the
\* table under its user.
C2_HeldGateStaysInTable ==
    \A t \in Tasks :
        (InProcessor(t) \/ pc[t] \in {"waiting", "woken"}) =>
            /\ t_user[t] \in DOMAIN user_locks
            /\ user_locks[t_user[t]] = t_lock[t]

\* no session of user u in the store is expired
Unexpired(u) ==
    \A sid \in DOMAIN sessions :
        sessions[sid].user_id = u => now - sessions[sid].last_activity <= TTL

\* the calls of user u that have added their turn, in acquisition order
Turned(u) == SelectSeq(Acquired(u), LAMBDA t : pc[t] \in {"store", "done"})

\* C3: with no expiry and no failed or cancelled call of user u, the
\* executions of the processor for u do not overlap, and the calls of u that
\* got through processing left one turn each in u's one session, in the
\* order in which they acquired the gate.
C3_TurnsInAcquisitionOrder ==
    \A u \in Users :
        (/\ Unexpired(u)
         /\ \A t \in Tasks : (pc[t] # "idle" /\ t_user[t] = u) =>
                               pc[t] \notin {"failed", "cancelled"}
         /\ Acquired(u) # <<>>) =>
            /\ Cardinality({t \in Tasks : InProcessor(t) /\ t_user[t] = u}) <= 1
            /\ u \in DOMAIN user_to_session
            /\ Cardinality({sid \in DOMAIN sessions : sessions[sid].user_id = u}) = 1
            /\ sessions[user_to_session[u]].conversation_history = Turned(u)

\* all the tasks called for one user, all have returned, and the session
\* holds their turns
C3_Witness ==
    /\ \A t \in Tasks : pc[t] = "done" /\ t_user[t] = "u1"
    /\ Len(sessions[user_to_session["u1"]].conversation_history) = NTasks

\* C4: a request is never kept waiting by a request of another user: a task
\* queued on a gate always has a task of its own user holding that gate, or
\* woken to take it.
C4_WaitsOnlyForOwnUser ==
    \A t \in Tasks :
        pc[t] = "waiting" =>
            \E t2 \in Tasks :
                /\ t2 # t
                /\ t_user[t2] = t_user[t]
                /\ InProcessor(t2) \/ pc[t2] = "woken"

\* user A's request is still at its first await while B's request, which
\* acquired its gate later, has returned
C4_Witness ==
    \E tA, tB \in Tasks :
        /\ pc[tA] = "kb" /\ pc[tB] = "done"
        /\ t_user[tA] # t_user[tB]
        /\ 0 < AcqIndex(tA) /\ AcqIndex(tA) < AcqIndex(tB)

\* C5: one lock is made per user, and every caller of get_user_lock for that
\* user holds the lock the table has for the user.
C5_OneGatePerUser ==
    /\ Cardinality(DOMAIN locks) = Cardinality(DOMAIN user_locks)
    /\ \A t \in Tasks :
           t_lock[t] # None =>
               /\ t_user[t] \in DOMAIN user_locks
               /\ t_lock[t] = user_locks[t_user[t]]

\* two callers of one user both hold a gate, and one lock was made
C5_Witness ==
    /\ Cardinality(DOMAIN locks) = 1
    /\ \E t1, t2 \in Tasks :
           t1 # t2 /\ t_user[t1] = t_user[t2] /\ t_lock[t1] # None /\ t_lock[t1] = t_lock[t2]

\* C6: a gate is set only while a call is inside the gated section on it; a
\* call that has ended holds and awaits no gate; and a free gate with waiters
\* has woken the first of them.
C6_GuaranteedRelease ==
    /\ \A k \in DOMAIN locks :
           /\ locks[k].locked => \E t \in Tasks : InProcessor(t) /\ t_lock[t] = k
           /\ (~locks[k].locked /\ locks[k].waiters # <<>>) =>
                  pc[Head(locks[k].waiters)] = "woken"
           /\ \A i \in 1..Len(locks[k].waiters) :
                  pc[locks[k].waiters[i]] \in {"waiting", "woken"}
    /\ \A t \in Tasks : pc[t] \in {"done", "failed", "cancelled"} => t_lock[t] = None

\* a call failed or was cancelled inside the gate, and the call queued behind
\* it has the gate now
C6_Witness ==
    \E t1, t2 \in Tasks :
        /\ pc[t1] \in {"failed", "cancelled"} /\ InProcessor(t2)
        /\ t_user[t1] = t_user[t2]
        /\ acq_order = <<t1, t2>>

\* C7: every identity-index entry names a session that is in the store,
\* belongs to that user and is active.
C7_IndexInvariant ==
    \A u \in DOMAIN user_to_session :
        /\ user_to_session[u] \in DOMAIN sessions
        /\ sessions[user_to_session[u]].user_id = u
        /\ sessions[user_to_session[u]].is_active

\* a user is indexed while a superseded or closed session of the same user
\* is still in the store
C7_Witness ==
    \E u \in DOMAIN user_to_session :
        \E sid \in DOMAIN sessions :
            /\ sid # user_to_session[u]
            /\ sessions[sid].user_id = u
            /\ ~sessions[sid].is_active

C9_Supersession ==
    /\ [](\A u \in Users :
            LET v == get_user_session(sessions, user_to_session, u, now).val
            IN  v # None =>
                  /\ v \in DOMAIN sessions
                  /\ \A sid \in DOMAIN sessions : sessions[sid].user_id = u => sid <= v)
    /\ [][/\ \A u \in Users :
               (CreateSession(u, EmptyCtx) /\ u \in DOMAIN user_to_session) =>
                  /\ user_to_session'[u] # user_to_session[u]
                  /\ get_user_session(sessions', user_to_session', u, now').val
                        = user_to_session'[u]
                  /\ user_to_session[u] \in DOMAIN sessions'
                  /\ get_session_stats(sessions').total_sessions
                        = get_session_stats(sessions).total_sessions + 1
          /\ (\E sid \in DOMAIN sessions : sid \notin DOMAIN sessions') => Sweep
      ]_vars

\* two sessions of one user are in the store, get_user_session gives the
\* newer, and the stats count both, one of them active
C9_Witness ==
    \E u \in Users :
        /\ get_user_session(sessions, user_to_session, u, now).val = 2
        /\ 1 \in DOMAIN sessions /\ sessions[1].user_id = u
        /\ get_session_stats(sessions).total_sessions = 2
        /\ get_session_stats(sessions).active_sessions = 1

\* C10: get_session(sid) returns the session iff it is in the store and
\* now - last_activity <= TTL; a hit sets last_activity to now and a miss
\* changes nothing; and last_activity moves only to now and only on a
\* session that was unexpired, so an expired session stays unretrievable.
C10_SlidingTTL ==
    /\ [](\A sid \in SessionIds :
            get_session(sessions, user_to_session, sid, now).val =
                IF sid \in DOMAIN sessions /\ now - sessions[sid].last_activity <= TTL
                THEN sid ELSE None)
    /\ [][/\ \A sid \in SessionIds :
               GetSession(sid) =>
                  IF sid \in DOMAIN sessions /\ now - sessions[sid].last_activity <= TTL
                  THEN sessions' = [sessions EXCEPT ![sid].last_activity = now]
                  ELSE sessions' = sessions
          /\ \A sid \in DOMAIN sessions \cap DOMAIN sessions' :
               sessions'[sid].last_activity # sessions[sid].last_activity =>
                  /\ sessions'[sid].last_activity = now
                  /\ now - sessions[sid].last_activity <= TTL
      ]_vars

\* a session older than the timeout is retrievable because it was accessed
\* since, and it is at the last instant of its timeout
C10_Witness ==
    \E sid \in DOMAIN sessions :
        /\ now - sessions[sid].created_at > TTL
        /\ now - sessions[sid].last_activity = TTL
        /\ get_session(sessions, user_to_session, sid, now).val = sid

\* C11: add_conversation_turn(sid, ...) returns true iff the session sid is
\* in the store, is active and is unexpired; when it returns true exactly one
\* turn is appended at the end of the session's log and last_activity is
\* refreshed; when it returns false no session's turn log changes.
C11_AddTurnIffActive ==
    \A sid \in SessionIds :
        LET r == add_conversation_turn(sessions, user_to_session, sid, ExtMsg, now)
        IN  /\ r.val = TRUE <=> /\ sid \in DOMAIN sessions
                                /\ sessions[sid].is_active
                                /\ ~is_expired(sessions[sid], now)
            /\ r.val = TRUE =>
                  /\ r.S[sid].conversation_history =
                        Append(sessions[sid].conversation_history, ExtMsg)
                  /\ r.S[sid].last_activity = now
            /\ r.val = FALSE =>
                  \A x \in DOMAIN sessions :
                      r.S[x].conversation_history = sessions[x].conversation_history

\* C12: close_session(sid) on a session present in the store sets its
\* is_active to false and returns true; it deletes user_to_session[user] iff
\* that entry equals sid, so closing a superseded session never removes the
\* index entry of the user's newer session; on a sid absent from the store it
\* returns false and changes nothing.
C12_CloseSession ==
    [][\A sid \in SessionIds :
          CloseSession(sid) =>
             LET r == close_session(sessions, user_to_session, sid)
             IN  IF sid \in DOMAIN sessions
                 THEN LET u == sessions[sid].user_id
                      IN  /\ r.val = TRUE
                          /\ sessions' = [sessions EXCEPT ![sid].is_active = FALSE]
                          /\ IF u \in DOMAIN user_to_session /\ user_to_session[u] = sid
                             THEN /\ u \notin DOMAIN user_to_session'
                                  /\ \A v \in DOMAIN user_to_session \ {u} :
                                        /\ v \in DOMAIN user_to_session'
                                        /\ user_to_session'[v] = user_to_session[v]
                             ELSE user_to_session' = user_to_session
                 ELSE /\ r.val = FALSE
                      /\ sessions' = sessions
                      /\ user_to_session' = user_to_session
      ]_vars

\* an indexed session has been closed and its user's entry deleted, while
\* another session is still active and indexed
C12_Witness ==
    \E s1, s2 \in DOMAIN sessions :
        /\ s1 # s2
        /\ ~sessions[s1].is_active
        /\ sessions[s1].user_id \notin DOMAIN user_to_session
        /\ sessions[s2].is_active
        /\ sessions[s2].user_id \in DOMAIN user_to_session
        /\ user_to_session[sessions[s2].user_id] = s2

\* C13: idempotent close: close_session on a session that has already been
\* closed returns false, and close_session with a session id that never
\* existed returns false.
C13_IdempotentClose ==
    /\ [](\A sid \in SessionIds :
            sid >= next_sid =>
               close_session(sessions, user_to_session, sid).val = FALSE)
    /\ [][\A sid \in DOMAIN sessions :
             CloseSession(sid) =>
                close_session(sessions', user_to_session', sid).val = FALSE
      ]_vars

\* C14: sweep post-condition: immediately after a pass of
\* _cleanup_expired_sessions, from any reachable state, the store contains no
\* session that is inactive or expired, and no user_to_session entry refers
\* to a session id that the pass removed or to any id absent from the store.
C14_SweepPostCondition ==
    [][Sweep =>
          /\ \A sid \in DOMAIN sessions' :
                /\ sessions'[sid].is_active
                /\ ~is_expired(sessions'[sid], now')
          /\ \A u \in DOMAIN user_to_session' :
                /\ user_to_session'[u] \notin DOMAIN sessions \ DOMAIN sessions'
                /\ user_to_session'[u] \in DOMAIN sessions'
      ]_vars

\* a pass has removed a session and kept another: an id that was given out
\* is gone from the store and from the index, and what is left is active,
\* unexpired and indexed
C14_Witness ==
    /\ \E sid \in 1..(next_sid - 1) :
          /\ sid \notin DOMAIN sessions
          /\ \A u \in DOMAIN user_to_session : user_to_session[u] # sid
    /\ \E sid \in DOMAIN sessions :
          /\ sessions[sid].is_active
          /\ ~is_expired(sessions[sid], now)
          /\ sessions[sid].user_id \in DOMAIN user_to_session
          /\ user_to_session[sessions[sid].user_id] = sid

\* the turns that task t's call has appended, over all stored sessions
TurnsOf(t) ==
    {<<sid, i>> \in SessionIds \X (1..(MaxTurns + NTasks)) :
        /\ sid \in DOMAIN sessions
        /\ i <= Len(sessions[sid].conversation_history)
        /\ sessions[sid].conversation_history[i] = t}

AppendsOwnTurn(t) ==
    /\ t_session[t] \in DOMAIN sessions
    /\ t_session[t] \in DOMAIN sessions'
    /\ sessions'[t_session[t]].conversation_history =
          Append(sessions[t_session[t]].conversation_history, t)

\* C16: every call of process_user_request with the query processor of
\* main.py whose processing completes normally has appended exactly one turn
\* to the session it resolved before the gate is released, in every
\* interleaving with close_session calls and sweep passes for that user.
\* (The processor appends at one place, when process_query has returned, and
\* holds the gate from there to its return.)
C16_CompletedCallAppendsOneTurn ==
    [][\A t \in Tasks :
          pc[t] = "llm" /\ pc'[t] \in {"store", "done"} =>
             /\ AppendsOwnTurn(t)
             /\ Cardinality(TurnsOf(t)') = 1
      ]_vars

\* task t takes its user's gate in this step
Acquires(t) == acq_order' = Append(acq_order, t)

\* C17: session resolution in process_user_request: under one gate
\* acquisition at most one session is created for the user, and none is
\* created when get_user_session(user) returns a session (the existing
\* session is reused); a session is created only when the user has no index
\* entry or the indexed session is expired.
C17_SessionResolution ==
    [][\A t \in Tasks :
          /\ Acquires(t) =>
                LET u == t_user'[t]
                    g == get_user_session(sessions, user_to_session, u, now)
                    created == DOMAIN sessions' \ DOMAIN sessions
                IN  /\ Cardinality(created) <= 1
                    /\ \A sid \in created :
                          /\ sessions'[sid].user_id = u
                          /\ t_session'[t] = sid
                          /\ \/ u \notin DOMAIN user_to_session
                             \/ is_expired(sessions[user_to_session[u]], now)
                    /\ g.val # None =>
                          /\ created = {}
                          /\ user_to_session' = user_to_session
                          /\ t_session'[t] = g.val
          /\ InProcessor(t) /\ pc'[t] # pc[t] => DOMAIN sessions' = DOMAIN sessions
      ]_vars

\* two calls of one user have taken the gate one after the other; the first
\* created the user's session, the second found it and is processing on it
C17_Witness ==
    \E u \in Users, t \in Tasks :
        /\ Len(Acquired(u)) = 2
        /\ next_sid = 2
        /\ InProcessor(t)
        /\ t_user[t] = u
        /\ t_session[t] = 1
        /\ AcqIndex(t) = 2

\* the session ids given out so far that are no longer in the store (only
\* the sweep takes a session out of the store)
Removed == {sid \in 1..(next_sid - 1) : sid \notin DOMAIN sessions}

\* C18: no re-activation: for every session, once is_active is false it is
\* never true again in any later state, and once a session id has been
\* removed from the store by the sweep it never reappears in sessions or in
\* user_to_session.
C18_NoReactivation ==
    /\ [](\A u \in DOMAIN user_to_session : user_to_session[u] \notin Removed)
    /\ [][/\ \A sid \in DOMAIN sessions \cap DOMAIN sessions' :
                ~sessions[sid].is_active => ~sessions'[sid].is_active
          /\ \A sid \in Removed : sid \notin DOMAIN sessions'
      ]_vars

\* a session has been swept, and another is in the store, inactive but
\* unexpired and so still open to get_session
C18_Witness ==
    /\ Removed # {}
    /\ \E sid \in DOMAIN sessions :
          /\ ~sessions[sid].is_active
          /\ get_session(sessions, user_to_session, sid, now).val = sid

\* session sid is closed or superseded (inactive), expired, or removed
Terminal(sid) ==
    \/ sid \notin DOMAIN sessions
    \/ ~sessions[sid].is_active
    \/ is_expired(sessions[sid], now)

\* C19: terminal unreachability: once a session has been closed, superseded
\* by a newer session of the same user, or has become expired
\* (now - last_activity > TTL), no later call of get_user_session for its
\* user ever returns that session, whatever operations follow.  In steps: a
\* close, a supersession and expiry each leave the session terminal, a
\* terminal session stays terminal, and get_user_session never gives a
\* terminal session.
C19_TerminalUnreachability ==
    /\ [](\A sid \in SessionIds, u \in Users :
            Terminal(sid) =>
               get_user_session(sessions, user_to_session, u, now).val # sid)
    /\ [][\A sid \in DOMAIN sessions :
             /\ Terminal(sid) => Terminal(sid)'
             /\ CloseSession(sid) => Terminal(sid)'
             /\ (\E new \in DOMAIN sessions' \ DOMAIN sessions :
                    sessions'[new].user_id = sessions[sid].user_id)
                => Terminal(sid)'
      ]_vars

\* an expired session is still stored, active and indexed, and
\* get_user_session for its user gives nothing
C19_Witness ==
    \E u \in DOMAIN user_to_session :
        /\ user_to_session[u] \in DOMAIN sessions
        /\ sessions[user_to_session[u]].is_active
        /\ is_expired(sessions[user_to_session[u]], now)
        /\ get_user_session(sessions, user_to_session, u, now).val = None

\* session sid is active and unexpired and holds one appended turn
OpenWithOneTurn(sid) ==
    /\ sid \in DOMAIN sessions
    /\ sessions[sid].is_active
    /\ ~is_expired(sessions[sid], now)
    /\ Len(sessions[sid].conversation_history) = 1

\* C20: end-to-end close: for a user with an active, unexpired session
\* holding one appended turn, get_user_session returns that session with
\* exactly that turn; after close_session on it, get_user_session(user)
\* returns nothing and get_session_stats()['active_sessions'] is exactly one
\* less than before the close, total_sessions unchanged.
C20_EndToEndClose ==
    /\ [](\A sid \in SessionIds :
            OpenWithOneTurn(sid) =>
               LET g == get_user_session(sessions, user_to_session,
                                         sessions[sid].user_id, now)
               IN  /\ g.val = sid
                   /\ g.S[sid].conversation_history = sessions[sid].conversation_history)
    /\ [][\A sid \in SessionIds :
             OpenWithOneTurn(sid) /\ CloseSession(sid) =>
                /\ get_user_session(sessions', user_to_session',
                                    sessions[sid].user_id, now').val = None
                /\ get_session_stats(sessions').active_sessions =
                      get_session_stats(sessions).active_sessions - 1
                /\ get_session_stats(sessions').total_sessions =
                      get_session_stats(sessions).total_sessions
      ]_vars

\* a session that took one turn has been closed while unexpired: it is
\* inactive, still stored with its turn, and its user has no index entry
C20_Witness ==
    \E sid \in DOMAIN sessions :
        /\ ~sessions[sid].is_active
        /\ ~is_expired(sessions[sid], now)
        /\ Len(sessions[sid].conversation_history) = 1
        /\ sessions[sid].user_id \notin DOMAIN user_to_session
        /\ get_session_stats(sessions).active_sessions <
              get_session_stats(sessions).total_sessions

\* C21: later writer wins: when two callers both observe that a user has no
\* reachable session and both call create_session for that user, in either
\* order of their critical sections, after both complete exactly one of the
\* two sessions is active and indexed for the user (the one created later)
\* and the other is in the store with is_active = false.
C21_LaterWriterWins ==
    [][\A t, o \in Tasks :
          /\ CreateAfterMiss(t)
          /\ pc[o] = "created"
          /\ t_user[o] = t_user[t]
          /\ user_to_session[t_user[t]] = t_session[o]
          => LET later == t_session'[t]
                 earlier == t_session[o]
             IN  /\ later > earlier
                 /\ user_to_session'[t_user[t]] = later
                 /\ later \in DOMAIN sessions'
                 /\ sessions'[later].is_active
                 /\ earlier \in DOMAIN sessions'
                 /\ ~sessions'[earlier].is_active
      ]_vars

\* both callers found nothing for the same user at the same instant and both
\* have created: the user's two sessions were created at the time of the
\* lookups, the later one is indexed
C21_Witness ==
    \E t, o \in Tasks :
        /\ t # o
        /\ pc[t] = "created" /\ pc[o] = "created"
        /\ t_user[t] = t_user[o]
        /\ t_session[o] < t_session[t]
        /\ sessions[t_session[o]].created_at = sessions[t_session[t]].created_at
        /\ ~is_expired(sessions[t_session[o]], now)
        /\ user_to_session[t_user[t]] = t_session[t]

\* thread t is inside get_user_session between the index lookup and the
\* store lookup, or inside add_conversation_turn between the expiry check
\* and the append
MidOperation(t) == pc[t] \in {"gus", "act"}

\* C22: registry atomicity: every registry operation executes as one
\* critical section under the registry lock; in particular, in
\* get_user_session no other operation can change sessions or
\* user_to_session between the index lookup and the store lookup, and in
\* add_conversation_turn none can between the expiry check and the append.
\* So a thread inside an operation owns the lock, a step that is not its own
\* leaves both mappings alone, and the two-part operations do what they
\* would do in one piece.
C22_RegistryAtomicity ==
    /\ [](\A t \in Tasks : MidOperation(t) => reg_lock.owner = t)
    /\ [][\A t \in Tasks :
             /\ MidOperation(t) /\ pc'[t] = pc[t] =>
                   /\ sessions' = sessions
                   /\ user_to_session' = user_to_session
             /\ GusGetSession(t) =>
                   \E u \in DOMAIN user_to_session :
                      LET g == get_user_session(sessions, user_to_session, u, now)
                      IN  /\ user_to_session[u] = t_session[t]
                          /\ sessions' = g.S
                          /\ user_to_session' = g.I
             /\ ActAppend(t) =>
                   /\ t_session[t] \in DOMAIN sessions
                   /\ sessions'[t_session[t]].conversation_history =
                         Append(sessions[t_session[t]].conversation_history, ExtMsg)
      ]_vars

\* one thread is between the expiry check and the append of
\* add_conversation_turn, holding the lock, while the other thread has
\* nothing in progress and the session's user has another, closed session
C22_Witness ==
    \E t \in Tasks :
        /\ pc[t] = "act"
        /\ reg_lock = [owner |-> t, count |-> 1]
        /\ t_session[t] \in DOMAIN sessions
        /\ \E o \in Tasks \ {t} : pc[o] = "idle"
        /\ \E sid \in DOMAIN sessions : ~sessions[sid].is_active

\* C23: update_user_context(sid, updates) on a session found by get_session
\* merges updates into user_context (keys in updates take the new value, all
\* other keys keep their value), refreshes last_activity and returns true;
\* when the session is absent or expired it returns false and no session's
\* user_context changes.
C23_UpdateUserContext ==
    [][\A sid \in SessionIds, upd \in ContextUpdates :
          UpdateUserContext(sid, upd) =>
             LET r == update_user_context(sessions, user_to_session, sid, upd, now)
             IN  IF get_session(sessions, user_to_session, sid, now).val # None
                 THEN LET old == sessions[sid].user_context
                          new == sessions'[sid].user_context
                      IN  /\ r.val = TRUE
                          /\ DOMAIN new = DOMAIN old \cup DOMAIN upd
                          /\ \A k \in DOMAIN upd : new[k] = upd[k]
                          /\ \A k \in DOMAIN old \ DOMAIN upd : new[k] = old[k]
                          /\ sessions' = [sessions EXCEPT ![sid].user_context = new,
                                                          ![sid].last_activity = now]
                          /\ user_to_session' = user_to_session
                 ELSE /\ r.val = FALSE
                      /\ sessions' = sessions
                      /\ user_to_session' = user_to_session
      ]_vars

\* a session's context holds a key that was overwritten and a key that was
\* added, each kept by the other update, and the last update came after the
\* session's creation
C23_Witness ==
    \E sid \in DOMAIN sessions :
        /\ sessions[sid].user_context = [k \in {"k1", "k2"} |-> IF k = "k1" THEN 2 ELSE 1]
        /\ sessions[sid].last_activity > sessions[sid].created_at

\* C24: a lookup miss changes nothing: when get_session or get_user_session
\* returns nothing (id absent, user not indexed, or session expired),
\* sessions, user_to_session and every session's last_activity are unchanged;
\* in particular get_user_session leaves a stale index entry pointing at an
\* expired session in place until the sweep removes it.
C24_MissChangesNothing ==
    [][/\ \A sid \in SessionIds :
             /\ GetSession(sid)
             /\ get_session(sessions, user_to_session, sid, now).val = None
             => /\ sessions' = sessions
                /\ user_to_session' = user_to_session
       /\ \A u \in Users :
             /\ GetUserSession(u)
             /\ get_user_session(sessions, user_to_session, u, now).val = None
             => /\ sessions' = sessions
                /\ user_to_session' = user_to_session
       /\ \A u \in DOMAIN user_to_session :
             /\ user_to_session[u] \in DOMAIN sessions
             /\ is_expired(sessions[user_to_session[u]], now)
             /\ Sweep
             => u \notin DOMAIN user_to_session'
      ]_vars

\* a session has expired; its user's index entry still points at it and
\* both lookups give nothing
C24_Witness ==
    \E u \in DOMAIN user_to_session :
        LET sid == user_to_session[u]
        IN  /\ sid \in DOMAIN sessions
            /\ is_expired(sessions[sid], now)
            /\ get_session(sessions, user_to_session, sid, now).val = None
            /\ get_user_session(sessions, user_to_session, u, now).val = None

\* every index entry points into the store
IndexInStore(S, I) == \A u \in DOMAIN I : I[u] \in DOMAIN S

\* C25: stop() semantics: after start() followed by stop(), when stop()
\* returns the periodic cleanup task has terminated, no sweep pass is in
\* progress, and no sweep pass executes afterwards; a cancellation never
\* interrupts a sweep pass half-way (both mappings are consistent whenever
\* the task stops).
C25_StopSemantics ==
    [][Len(ctasks) = 1 /\ Len(ctasks') = 1 =>
          /\ (Stop \/ StopReturns) /\ stop_pc'.st = "returned" =>
                ~Alive(ctasks'[1])
          /\ ~Alive(ctasks[1]) =>
                /\ ctasks' = ctasks
                /\ ~(CleanupPass(1) \/ CleanupPassFails(1))
          /\ Alive(ctasks[1]) /\ ~Alive(ctasks'[1]) =>
                IndexInStore(sessions', user_to_session')
      ]_vars

\* started once and stopped: stop has returned, the one task is done after a
\* pass that removed a session, and the manager is not running
C25_Witness ==
    /\ Len(ctasks) = 1
    /\ stop_pc.st = "returned"
    /\ ctasks[1].st = "done"
    /\ ~is_running
    /\ Removed # {}

\* C26: sweep failure isolation: if one sweep pass fails with an exception
\* (other than cancellation), the periodic loop does not terminate; while the
\* manager is running, the next pass is scheduled after the interval and
\* executes normally.
C26_SweepFailureIsolation ==
    /\ [][\A i \in DOMAIN ctasks :
             CleanupPassFails(i) /\ is_running =>
                /\ ctasks'[i].st = "sleeping"
                /\ ~ctasks'[i].must_cancel
                /\ UNCHANGED regVars
      ]_vars
    /\ [][\A i \in DOMAIN ctasks :
             CleanupPass(i) /\ ctasks[i].last = "failed" =>
                /\ sessions' = cleanup_expired_sessions(sessions, user_to_session, now).S
                /\ user_to_session' = cleanup_expired_sessions(sessions, user_to_session, now).I
                /\ \A sid \in DOMAIN sessions' : sessions'[sid].is_active
      ]_vars

\* a task logged the error of a failed pass, and its pass after that removed
\* a session; the task sleeps until the next one
C26_Witness ==
    \E i \in DOMAIN ctasks :
        /\ ctasks[i].errors
        /\ ctasks[i].last = "swept"
        /\ ctasks[i].st = "sleeping"
        /\ is_running
        /\ Removed # {}

\* C27: eventual removal: while the manager is started and not stopped,
\* under fair scheduling of the periodic task, every session that becomes
\* inactive, or becomes expired and is not accessed again, is eventually
\* removed from the store, and a stale index entry pointing at it is
\* eventually removed.
C27_EventualRemoval ==
    \A sid \in SessionIds :
        (sid \in DOMAIN sessions /\ Terminal(sid) /\ is_running)
        ~> \/ ~is_running
           \/ /\ sid \notin DOMAIN sessions
              /\ \A u \in DOMAIN user_to_session : user_to_session[u] # sid

\* the manager is running with its task asleep, a pass has already removed a
\* session, and an expired session with a stale index entry waits for the
\* next pass
C27_Witness ==
    /\ is_running
    /\ cleanup_task # None
    /\ ctasks[cleanup_task].st = "sleeping"
    /\ ctasks[cleanup_task].last = "swept"
    /\ Removed # {}
    /\ \E u \in DOMAIN user_to_session :
          /\ user_to_session[u] \in DOMAIN sessions
          /\ is_expired(sessions[user_to_session[u]], now)

\* C28: sweep frame: a pass of _cleanup_expired_sessions removes a session
\* iff it is expired or inactive; every session that is active and unexpired
\* at the time of the pass remains in the store with unchanged turn log,
\* user_context, last_activity and is_active, and its index entry is
\* unchanged.
C28_SweepFrame ==
    [][Sweep =>
          /\ DOMAIN sessions' \subseteq DOMAIN sessions
          /\ \A sid \in DOMAIN sessions :
                LET s == sessions[sid]
                    gone == is_expired(s, now) \/ ~s.is_active
                IN  /\ sid \notin DOMAIN sessions' <=> gone
                    /\ ~gone =>
                          /\ sessions'[sid] = s
                          /\ s.user_id \in DOMAIN user_to_session <=>
                                s.user_id \in DOMAIN user_to_session'
                          /\ s.user_id \in DOMAIN user_to_session =>
                                user_to_session'[s.user_id] = user_to_session[s.user_id]
      ]_vars

\* a pass has removed a session and left in place an active, unexpired,
\* indexed session that holds a turn
C28_Witness ==
    /\ Removed # {}
    /\ \E sid \in DOMAIN sessions :
          /\ sessions[sid].is_active
          /\ ~is_expired(sessions[sid], now)
          /\ Len(sessions[sid].conversation_history) = 1
          /\ sessions[sid].user_id \in DOMAIN user_to_session
          /\ user_to_session[sessions[sid].user_id] = sid

\* C29: get_session_stats is a read-only snapshot: it changes neither
\* mapping nor any session field (it does not refresh last_activity), and it
\* returns active_sessions = number of stored sessions with is_active true,
\* total_sessions = number of stored sessions, total_conversation_turns =
\* sum of the turn-log lengths, unique_users = number of distinct user_ids
\* among stored sessions.
C29_StatsSnapshot ==
    /\ [](LET st == get_session_stats(sessions)
              inactive == {sid \in DOMAIN sessions : ~sessions[sid].is_active}
              turns == {<<sid, i>> \in SessionIds \X (1..(MaxTurns + NTasks)) :
                          /\ sid \in DOMAIN sessions
                          /\ i <= Len(sessions[sid].conversation_history)}
          IN  /\ st.total_sessions = Cardinality(DOMAIN sessions)
              /\ st.active_sessions = st.total_sessions - Cardinality(inactive)
              /\ st.total_conversation_turns = Cardinality(turns)
              /\ st.unique_users =
                    Cardinality({u \in Users : \E sid \in DOMAIN sessions :
                                                  sessions[sid].user_id = u}))
    /\ [][GetSessionStats => UNCHANGED <<sessions, user_to_session>>]_vars

\* the store holds two sessions of one user, one inactive, each with a turn:
\* two sessions, one active, two turns, one user
C29_Witness ==
    /\ get_session_stats(sessions) =
          [active_sessions |-> 1, total_sessions |-> 2,
           total_conversation_turns |-> 2, unique_users |-> 1]

\* task t waits for a gate: it is queued on the lock, or woken and not yet
\* running
WaitsForGate(t) == pc[t] \in {"waiting", "woken"}

\* C30: lock discipline, gate table: _locks_lock is never held by a caller
\* while that caller waits to acquire a per-user gate; consequently a caller
\* blocked on user A's gate never prevents get_user_lock or
\* cleanup_user_locks from proceeding for other callers, and no deadlock
\* between the gate-table lock, the user gates and the registry lock is
\* reachable: while a caller waits, the table lock and the registry lock are
\* free, and the gate it waits for is held by a call inside processor_func,
\* which needs no lock to go on, or has been handed to a woken waiter.
C30_GateTableLockDiscipline ==
    \A t \in Tasks :
        WaitsForGate(t) =>
           /\ locks_lock = None
           /\ reg_lock.owner = None
           /\ pc[t] = "waiting" =>
                 \E o \in Tasks \ {t} :
                    /\ t_lock[o] = t_lock[t]
                    /\ InProcessor(o) \/ pc[o] = "woken"

\* a caller waits for its user's gate and, meanwhile, cleanup_user_locks has
\* gone through the table and taken that user's entry out
C30_Witness ==
    \E t \in Tasks :
        /\ pc[t] = "waiting"
        /\ t_user[t] \notin DOMAIN user_locks
        /\ \E o \in Tasks : InProcessor(o) /\ t_lock[o] = t_lock[t]

\* C31: lock discipline, registry: the registry lock is never held across a
\* suspension point or an external call: whenever a process_user_request is
\* suspended inside processor_func (or waits for its gate), or a cleanup task
\* is sleeping, the registry lock is free.
C31_RegistryLockFreeAtSuspension ==
    (\/ \E t \in Tasks : InProcessor(t) \/ WaitsForGate(t)
     \/ \E i \in DOMAIN ctasks : ctasks[i].st = "sleeping")
        => reg_lock = [owner |-> None, count |-> 0]

\* a request is suspended inside processor_func after a turn was added to its
\* session, while a cleanup task sleeps after a pass: both have been through
\* the registry
C31_Witness ==
    /\ \E t \in Tasks :
          /\ InProcessor(t)
          /\ t_session[t] \in DOMAIN sessions
          /\ sessions[t_session[t]].conversation_history # <<>>
    /\ \E i \in DOMAIN ctasks : ctasks[i].st = "sleeping" /\ ctasks[i].last = "swept"

\* sequence p is a prefix of sequence s
IsPrefix(p, s) == Len(p) <= Len(s) /\ SubSeq(s, 1, Len(p)) = p

\* C32: turn logs are append-only: for every session and every registry
\* operation, the turn log after the operation has the log before it as a
\* prefix (no operation removes, reorders or rewrites a turn of a session that
\* stays in the store), and each successful add_conversation_turn extends the
\* log by exactly one turn, its own, at the end.
C32_TurnLogsAppendOnly ==
    [][/\ \A sid \in DOMAIN sessions \cap DOMAIN sessions' :
             IsPrefix(sessions[sid].conversation_history,
                      sessions'[sid].conversation_history)
       /\ \A sid \in SessionIds, msg \in Messages :
             (/\ AddConversationTurnOf(sid, msg)
              /\ add_conversation_turn(sessions, user_to_session, sid, msg, now).val)
                => sessions'[sid].conversation_history
                      = Append(sessions[sid].conversation_history, msg)
      ]_vars

\* a log of two turns with different messages, in a session that was closed
\* afterwards
C32_Witness ==
    \E sid \in DOMAIN sessions :
        /\ sessions[sid].conversation_history = <<1, 2>>
        /\ ~sessions[sid].is_active

\* C33: with a non-decreasing clock, every session in every reachable state
\* satisfies last_activity >= created_at.
C33_ActivityNotBeforeCreation ==
    \A sid \in DOMAIN sessions :
        sessions[sid].last_activity >= sessions[sid].created_at

\* a session made after the clock had advanced, and refreshed at a still
\* later time
C33_Witness ==
    \E sid \in DOMAIN sessions :
        /\ sessions[sid].created_at > 0
        /\ sessions[sid].last_activity > sessions[sid].created_at

\* the step leaves every session of every user other than a, and that user's
\* index entry, as they were, and makes no session for such a user
OthersUntouched(a) ==
    \A b \in Users \ {a} :
        /\ \A sid \in DOMAIN sessions :
              sessions[sid].user_id = b
                 => sid \in DOMAIN sessions' /\ sessions'[sid] = sessions[sid]
        /\ \A sid \in DOMAIN sessions' \ DOMAIN sessions : sessions'[sid].user_id # b
        /\ (b \in DOMAIN user_to_session') = (b \in DOMAIN user_to_session)
        /\ b \in DOMAIN user_to_session => user_to_session'[b] = user_to_session[b]

\* C34: cross-user isolation: create_session, close_session,
\* add_conversation_turn, update_user_context and process_user_request
\* (including one whose processor fails) performed for user A leave every
\* session of any other user B and B's identity-index entry unchanged.
C34_CrossUserIsolation ==
    [][/\ \A a \in Users : CreateSession(a, EmptyCtx) => OthersUntouched(a)
       /\ \A sid \in DOMAIN sessions :
             (\/ CloseSession(sid)
              \/ AddConversationTurn(sid)
              \/ UpdateUserContext(sid, EmptyCtx))
                => OthersUntouched(sessions[sid].user_id)
       /\ \A t \in Tasks, a \in Users : Call(t, a) => OthersUntouched(a)
       /\ \A t \in Tasks :
             (\/ KbReturn(t)
              \/ LlmReturn(t, FALSE)
              \/ Raise(t))
                => OthersUntouched(t_user[t])
      ]_vars

\* one user has an active, indexed session with a turn in it while a request
\* of another user has failed and a session of that other user has been
\* superseded or closed
C34_Witness ==
    \E a \in Users : \E b \in Users \ {a} :
        /\ \E t \in Tasks : t_user[t] = a /\ pc[t] = "failed"
        /\ \E sid \in DOMAIN sessions :
              sessions[sid].user_id = a /\ ~sessions[sid].is_active
        /\ b \in DOMAIN user_to_session
        /\ user_to_session[b] \in DOMAIN sessions
        /\ sessions[user_to_session[b]].is_active
        /\ sessions[user_to_session[b]].conversation_history # <<>>

\* C35: active sessions are exactly the indexed ones: in every reachable
\* state a stored session s has is_active = true iff
\* user_to_session[s.user_id] = s.session_id; hence the store holds at most
\* one active session per user_id, and active_sessions in the stats equals
\* the number of identity-index entries.
C35_ActiveIffIndexed ==
    /\ \A sid \in DOMAIN sessions :
          sessions[sid].is_active
             <=> (/\ sessions[sid].user_id \in DOMAIN user_to_session
                  /\ user_to_session[sessions[sid].user_id] = sid)
    /\ \A u \in Users :
          Cardinality({sid \in DOMAIN sessions :
                          sessions[sid].user_id = u /\ sessions[sid].is_active}) <= 1
    /\ get_session_stats(sessions).active_sessions = Cardinality(DOMAIN user_to_session)

\* a user with two stored sessions, the earlier one superseded and the later
\* one active after the clock has passed the earlier one's expiry
C35_Witness ==
    \E s1 \in DOMAIN sessions, s2 \in DOMAIN sessions :
        /\ sessions[s1].user_id = sessions[s2].user_id
        /\ ~sessions[s1].is_active
        /\ is_expired(sessions[s1], now)
        /\ sessions[s2].is_active
        /\ user_to_session[sessions[s2].user_id] = s2

\* the cleanup tasks that have not finished
AliveTasks == {i \in DOMAIN ctasks : Alive(ctasks[i])}

\* C36: at most one periodic cleanup task is alive at any time, for any
\* sequence of start() and stop() calls on one SessionManager (start() called
\* twice before stop() included); and after the last stop() has returned (no
\* start() since) no cleanup task remains running.
C36_OneCleanupTask ==
    /\ Cardinality(AliveTasks) <= 1
    /\ (stop_pc.st = "returned" /\ ~is_running) => AliveTasks = {}

\* the position of task t in the queue of the gate it waits for
QueuePos(t) ==
    LET w == locks[t_lock[t]].waiters
    IN  CHOOSE i \in 1..Len(w) : w[i] = t

\* the call of task t is over
Returned(t) == pc[t] \in {"done", "failed"}

\* C37: no starvation on the gate: if every processor_func execution
\* terminates (returns or raises), every process_user_request call that is
\* waiting for its user's gate eventually acquires it and eventually returns,
\* and waiting callers of one user acquire the gate in the order they started
\* waiting: whoever acquires is ahead, in the gate's queue, of every other
\* caller waiting for that user's gate.
C37_NoStarvation ==
    /\ \A t \in Tasks : (pc[t] = "waiting") ~> (InProcessor(t) \/ Returned(t))
    /\ \A t \in Tasks : WaitsForGate(t) ~> Returned(t)
    /\ [][\A t \in Tasks :
             Acquires(t) =>
                \A o \in Tasks \ {t} :
                   (WaitsForGate(o) /\ t_user[o] = t_user'[t])
                      => /\ WaitsForGate(t)
                         /\ t_lock[t] = t_lock[o]
                         /\ QueuePos(t) < QueuePos(o)
      ]_vars

\* a caller that came back while a woken waiter had not run yet has queued
\* behind it, the waiter has acquired the gate and is inside processor_func
C37_Witness ==
    \E t \in Tasks, o \in Tasks :
        /\ InProcessor(t)
        /\ pc[o] = "waiting"
        /\ t_lock[o] = t_lock[t]
        /\ Len(acq_order) >= 2
        /\ acq_order[Len(acq_order)] = t
        /\ acq_order[Len(acq_order) - 1] = o

\* C38: the 'Could not create or retrieve session' failure of
\* process_user_request is unreachable: in every interleaving with other
\* users' requests, close_session calls and sweep passes, the session
\* resolved under the gate (found by get_user_session, or created and then
\* fetched by get_session) is non-empty, so every caller that acquires its
\* gate goes into processor_func with a stored session whose user_id is the
\* caller's user_id.
C38_SessionAlwaysResolved ==
    /\ [](\A u \in Users :
            LET r == resolve_session(sessions, user_to_session, next_sid, u, now)
            IN  /\ r.val # None
                /\ r.S[r.val].user_id = u)
    /\ [][\A t \in Tasks :
             Acquires(t) =>
                /\ InProcessor(t)'
                /\ t_session'[t] \in DOMAIN sessions'
                /\ sessions'[t_session'[t]].user_id = t_user'[t]
      ]_vars

\* a caller is inside processor_func with a session that was made late, when
\* an earlier session of its user had been closed or had expired and been
\* superseded
C38_Witness ==
    \E t \in Tasks :
        /\ InProcessor(t)
        /\ t_session[t] \in DOMAIN sessions
        /\ sessions[t_session[t]].created_at > TTL
        /\ \E sid \in DOMAIN sessions \ {t_session[t]} :
              /\ sessions[sid].user_id = t_user[t]
              /\ ~sessions[sid].is_active

\* the last n elements of sequence s, all of s when it has fewer
LastTurns(s, n) ==
    LET k == IF n < Len(s) THEN n ELSE Len(s)
    IN  SubSeq(s, Len(s) - k + 1, Len(s))

\* C39: get_conversation_history(sid, max_turns) returns, for every
\* max_turns >= 0 and every log length, the last min(max_turns, length) turns
\* of the session in log order (never more than max_turns turns), and an
\* empty list when the session is absent or expired; get_recent_context
\* (max_turns) likewise covers only the last min(max_turns, length) turns.
C39_HistoryWindow ==
    \A sid \in SessionIds, n \in TurnLimits :
        LET val == get_conversation_history(sessions, user_to_session, sid, n, now).val
        IN  /\ Len(val) <= n
            /\ IF sid \in DOMAIN sessions /\ ~is_expired(sessions[sid], now)
               THEN /\ val = LastTurns(sessions[sid].conversation_history, n)
                    /\ LET ctx == get_recent_context(sessions[sid], n)
                           last == LastTurns(sessions[sid].conversation_history, n)
                       IN  /\ Len(ctx) = 2 * Len(last)
                           /\ \A i \in 1..Len(last) :
                                 /\ ctx[2 * i - 1].content = last[i]
                                 /\ ctx[2 * i].content = last[i]
               ELSE val = <<>>

====
